---- MODULE Spec2Model ----
(***************************************************************************)
(* Reactor integration core of ERS_Vent: the ODE object (src/ODE.py), the  *)
(* relief-system correlations it inherits (src/ERS.py) and the driver that *)
(* runs heatup and venting (src/Runtime.py, run_scenario_menu).            *)
(*                                                                         *)
(* Numbers are fixed-point integers.  Mole fractions, void fractions and   *)
(* the exit quality are held in 1/Scale; pressures in kPa; volumes in L;   *)
(* velocities in dm/s; densities in g/L; diameters in half inches, so that *)
(* A_relief is D*D in quarter circular inches; mass flux in kg/(m2 s).     *)
(* A non-finite float (nan, inf) is the value NaN.                         *)
(***************************************************************************)
EXTENDS Integers, Sequences, FiniteSets, TLC

\* ------------------------------------------------------------------ bounds
Scale == 100
SecPerHour == 3
MeshDensity == 3
MaxRows == 5

\* --------------------------------------------------------------- constants
Patm == 101
C0n == 3
C0d == 2

NaN == -(2^30)

IsNaN(v) == v = NaN

\* a numeric attribute that is None or not yet set
Unset == NaN - 1

\* ------------------------------------------------------------- arithmetic
\* the element of a singleton; { e(x) : x \in {v} } evaluates v once
Only(S) == CHOOSE x \in S : TRUE

Abs(a) == IF a < 0 THEN -a ELSE a

\* floor division for any sign of a and b (b # 0)
Div(a, b) ==
    IF b > 0 THEN a \div b ELSE (-a) \div (-b)

\* float division: nan/inf when an operand is non-finite or the divisor is 0
FDiv(a, b) ==
    IF IsNaN(a) \/ IsNaN(b) \/ b = 0 THEN NaN ELSE Div(a, b)

FMul(a, b) == IF IsNaN(a) \/ IsNaN(b) THEN NaN ELSE a * b
FAdd(a, b) == IF IsNaN(a) \/ IsNaN(b) THEN NaN ELSE a + b
FSub(a, b) == IF IsNaN(a) \/ IsNaN(b) THEN NaN ELSE a - b

\* variant of FLe: strict comparison
FLt(a, b) == ~IsNaN(a) /\ ~IsNaN(b) /\ a < b

\* comparisons with nan are False
FLe(a, b) == ~IsNaN(a) /\ ~IsNaN(b) /\ a <= b

\* largest r with r*r <= n, by bisection on lo*lo <= n < hi*hi
RECURSIVE IsqrtBetween(_, _, _)
IsqrtBetween(n, lo, hi) ==
    IF hi - lo <= 1 THEN lo
    ELSE LET mid == (lo + hi) \div 2
         IN IF mid * mid <= n THEN IsqrtBetween(n, mid, hi)
                              ELSE IsqrtBetween(n, lo, mid)

\* np.sqrt: nan below zero
Sqrt(n) == IF IsNaN(n) \/ n < 0 THEN NaN ELSE IsqrtBetween(n, 0, 46341)

\* ------------------------------------------------------------ Conversion
\* A_relief(D) = pi*(D*0.0254)^2/4; with D in half inches the area unit is
\* a quarter circular inch and the value is D*D.
A_relief(D) == D * D

\* cv2kd(Cv, D) = Cv / (27.66 * A_relief(D) * 1550), in 1/100; Cv in 1/10.
\* 27.66*1550*pi*0.0127^2/4 = 5.4309 per quarter circular inch.
cv2kd(Cv, D) == Div(Cv * 100000, 54309 * A_relief(D))

\* ------------------------------------------------------------------- ERS
\* (2/(k+1))^(k/(k-1)) in 1/1000 for the heat-capacity ratios k (in 1/1000)
\* the model draws; the power is tabulated.
CritRatio(k) ==
    CASE k = 1300 -> 546
      [] k = 1400 -> 528
      [] OTHER    -> 528

critical_pressure(k, P) == Div(CritRatio(k) * P, 1000)

\* Sets the critical_flow flag for a discharge pressure: choked when the
\* downstream pressure is below the critical pressure.
crit_flow(o, P_discharge) ==
    [o EXCEPT !.critical_flow = (P_discharge < critical_pressure(o.cp.k, o.cp.P)),
              !.called = Append(@, [proc |-> "crit_flow", Pd |-> P_discharge])]

\* Vapour vent flow.  The composition, compressibility and temperature
\* group sqrt(Mw/(T*Z))/Mw is the drawn coefficient o.cp.fc; the numeric
\* prefactors of the two correlations are 27 and 40 in 1/FlowDen.
\* D and Kd are the device diameter and discharge coefficient handed over
\* at the call sites of vent_calc.
FlowDen == 50000

\* variant of ventflow: the discharge coefficient is kept in the scenario
ventflow_keeps_Kd(o, P_discharge, D, Kd) ==
    LET crit == Div(A_relief(D) * Kd * 27 * o.cp.P * o.cp.fc, FlowDen)
        sub  == FDiv(FMul(A_relief(D) * Kd * 40 * o.cp.fc,
                          Sqrt(o.cp.P * (o.cp.P - P_discharge))), FlowDen)
    IN [o EXCEPT !.n_vent_vap = IF o.critical_flow = TRUE THEN crit
                                ELSE IF o.critical_flow = FALSE THEN sub
                                ELSE @,
                 !.scenario.Kd_RD = Kd,
                 !.called = Append(@, [proc |-> "ventflow", Pd |-> P_discharge])]

ventflow(o, P_discharge, D, Kd) ==
    LET crit == Div(A_relief(D) * Kd * 27 * o.cp.P * o.cp.fc, FlowDen)
        sub  == FDiv(FMul(A_relief(D) * Kd * 40 * o.cp.fc,
                          Sqrt(o.cp.P * (o.cp.P - P_discharge))), FlowDen)
    IN [o EXCEPT !.n_vent_vap = IF o.critical_flow = TRUE THEN crit
                                ELSE IF o.critical_flow = FALSE THEN sub
                                ELSE @,
                 !.called = Append(@, [proc |-> "ventflow", Pd |-> P_discharge])]

\* Python 'is' between the configured regime string and a literal of ERS.py:
\* equality of text, and identity of the two string objects, which the
\* interpreter guarantees for identifier-like literals ('bubbly') only.
IsRegime(o, lit) ==
    o.scenario.flow_regime = lit /\ (lit = "bubbly" \/ o.scenario.interned)

Ux_factor(o) ==
    IF IsRegime(o, "churn-turbulent") THEN 153
    ELSE IF IsRegime(o, "bubbly") THEN 118
    ELSE 0

Ux_bound(o) == IsRegime(o, "churn-turbulent") \/ IsRegime(o, "bubbly")

\* opt.fsolve(self.voidfrac, 0.8): the bubbly residual is linear in z and
\* its root is closed-form; for the churn-turbulent residual the returned
\* iterate is the drawn value u.alpha (fsolve returns its last iterate also
\* when it did not converge), and so it is for a nan residual.
\* variant of fsolve_voidfrac: the residual reads the jgx an earlier call
\* left in the object
fsolve_voidfrac_stale_jgx(o, jgx, Ui, u) ==
    LET j == IF o.jgx = Unset THEN jgx ELSE o.jgx
    IN IF IsNaN(j) \/ IsNaN(Ui) THEN u.alpha
       ELSE IF IsRegime(o, "bubbly")
            THEN FDiv(j * C0d * Scale, 2 * C0d * Ui + C0n * j)
            ELSE u.alpha

fsolve_voidfrac(o, jgx, Ui, u) ==
    IF IsNaN(jgx) \/ IsNaN(Ui) THEN u.alpha
    ELSE IF IsRegime(o, "bubbly")
         THEN FDiv(jgx * C0d * Scale, 2 * C0d * Ui + C0n * jgx)
         ELSE u.alpha

two_phase(o, u) ==
    LET S    == Scale
        Ard  == A_relief(o.scenario.D_RD)
        Av   == A_relief(o.scenario.D)
        jgx  == FDiv(FMul(100 * Ard, o.n_vent_vap), o.pG * Av)
        Ui   == Div(Ux_factor(o) * u.U0, 100)
        alpha    == fsolve_voidfrac(o, jgx, Ui, u)
        alphaves == Div((o.scenario.VR - o.cp.VL) * S, o.scenario.VR)
        jgi  == IF IsRegime(o, "churn-turbulent")
                THEN FDiv(2 * alphaves * Ui * C0d, C0d * S - C0n * alphaves)
                ELSE FDiv(alphaves * (S - alphaves) * (S - alphaves) * Ui * C0d * S,
                          (S*S*S - alphaves*alphaves*alphaves) * (C0d * S - C0n * alphaves))
        a_m  == IF IsRegime(o, "churn-turbulent")
                THEN Div(2 * alphaves * S * C0d, C0d * S + C0n * alphaves)
                ELSE alphaves
        Xm   == FDiv(a_m * o.pG * S, a_m * o.pG + (S - a_m) * o.pL)
        o1   == [o EXCEPT !.jgx = jgx, !.called = Append(@, [proc |-> "two_phase", Pd |-> Unset])]
    IN IF ~Ux_bound(o)
       THEN [o1 EXCEPT !.raised = TRUE]
       ELSE IF FLe(alpha, alphaves)
            THEN [o1 EXCEPT !.Ui = Ui, !.alpha = alpha, !.alphaves = alphaves,
                            !.TF = "False",
                            !.Xm = u.garbage, !.jgi = u.garbage]
            ELSE [o1 EXCEPT !.Ui = Ui, !.alpha = alpha, !.alphaves = alphaves,
                            !.TF = "True",
                            !.jgi = jgi, !.Xm = Xm]

\* Average molecular weight of the vessel contents (g/mol), local Mw of
\* flow_twophase; cp.vf is nG/ntotal in 1/Scale.
AvgMw(o) ==
    LET S == Scale
        MwG == o.H2O.y * 18 + o.H2O2.y * 34 + o.O2.y * 32
        MwL == o.H2O.x * 18 + o.H2O2.x * 34
    IN Div(MwG * o.cp.vf + MwL * (S - o.cp.vf), S * S)

\* Two-phase mass flux and exit quality.  The specific-volume group of
\* G_twophase is the drawn coefficient u.gc; the pressure dependence
\* sqrt(P*(P - P_discharge)) keeps its zero at P = P_discharge and is nan
\* below it.
flow_twophase(o, P_discharge, u) ==
    LET S    == Scale
        Ard  == A_relief(o.scenario.D_RD)
        Av   == A_relief(o.scenario.D)
        G_twophase == FMul(u.gc, Sqrt(o.cp.P * (o.cp.P - P_discharge)))
        a    == FDiv(FMul(FMul(o.jgi, o.pG), Av), 1000)
        b    == FMul(Ard * 100, G_twophase)
        xe   == FDiv(FAdd(FMul(a, S), FMul(o.Xm, FSub(b, a))), b)
    IN [o EXCEPT !.xe = xe,
                 !.n_vent = FDiv(FMul(G_twophase, o.scenario.Kd_RD * Ard), 800 * AvgMw(o)),
                 !.called = Append(@, [proc |-> "flow_twophase", Pd |-> P_discharge])]

\* ------------------------------------------------------------ vent_calc
VapourOnly(o) == [o EXCEPT !.n_vent = o.n_vent_vap, !.xe = Scale]

NoVent(o) == [o EXCEPT !.n_vent = 0, !.xe = Scale]

\* variant of BPRPath: the flag is taken from crit_flow(P_BPR) instead of
\* being reset
BPRPath_crit_flow(o) ==
    Only({ VapourOnly(o2)
         : o2 \in { ventflow(o1, o.scenario.P_BPR, o.scenario.D_BPR,
                              cv2kd(o.scenario.BPR_max_Cv, o.scenario.D_BPR))
                     : o1 \in {crit_flow(o, o.scenario.P_BPR)} } })

BPRPath(o) ==
    Only({ VapourOnly(o2)
         : o2 \in { ventflow(o1, o.scenario.P_BPR, o.scenario.D_BPR,
                              cv2kd(o.scenario.BPR_max_Cv, o.scenario.D_BPR))
                     : o1 \in {[o EXCEPT !.critical_flow = FALSE]} } })

\* after two_phase: single-phase when TF is False, else flow_twophase
RDTwoPhase(o3, u) ==
    IF o3.raised THEN o3
    ELSE IF o3.TF = "False" THEN VapourOnly(o3)
    ELSE IF o3.TF = "True" THEN flow_twophase(o3, Patm, u)
    ELSE o3

RDPath(o, u) ==
    Only({ IF o.scenario.TF_vent = TRUE
           THEN Only({ RDTwoPhase(o3, u) : o3 \in {two_phase(o2, u)} })
           ELSE VapourOnly(o2)
         : o2 \in { ventflow(o1, Patm, o.scenario.D_RD, o.scenario.Kd_RD)
                     : o1 \in {crit_flow(o, Patm)} } })

\* variant of vent_calc: the BPR is looked at before the rupture disc
vent_calc_bpr_first(o, u) ==
    IF o.scenario.BPR = TRUE /\ o.cp.P > o.scenario.P_BPR
    THEN BPRPath(o)
    ELSE IF o.scenario.RD = TRUE /\ o.venting = "True"
         THEN RDPath(o, u)
         ELSE NoVent(o)

vent_calc(o, u) ==
    IF o.scenario.RD = TRUE
    THEN IF o.venting = "True"
         THEN RDPath(o, u)
         ELSE IF o.scenario.BPR = TRUE /\ o.scenario.P_RD > o.cp.P
                                       /\ o.cp.P > o.scenario.P_BPR
              THEN BPRPath(o)
              ELSE NoVent(o)
    ELSE IF o.scenario.BPR = TRUE /\ o.cp.P > o.scenario.P_BPR
         THEN BPRPath(o)
         ELSE NoVent(o)

\* ----------------------------------------------------------- time mesh
\* Mesh times are rationals [n, d] with d > 0, kept in lowest terms.
RECURSIVE GCD(_, _)
GCD(a, b) == IF b = 0 THEN a ELSE GCD(b, a % b)

Rat(n, d) == LET g == GCD(Abs(n), d) IN [n |-> n \div g, d |-> d \div g]

RLt(a, b) == a.n * b.d < b.n * a.d
RLe(a, b) == a.n * b.d <= b.n * a.d
RSub(a, b) == Rat(a.n * b.d - b.n * a.d, a.d * b.d)
RAdd(a, b) == Rat(a.n * b.d + b.n * a.d, a.d * b.d)
RMulInt(a, m) == Rat(a.n * m, a.d)
RDivInt(a, m) == Rat(a.n, a.d * m)

\* int(x) for x >= 0
Trunc(a) == a.n \div a.d

\* np.linspace(start, stop, num): num points, the last one exactly stop;
\* a single point is start; none for num <= 0.
linspace(start, stop, num) ==
    IF num <= 0 THEN << >>
    ELSE IF num = 1 THEN << start >>
    ELSE [j \in 1..num |->
            IF j = num THEN stop
            ELSE RAdd(start, RDivInt(RMulInt(RSub(stop, start), j - 1), num - 1))]

\* ------------------------------------------------------------- scenario
\* tmax = (rxn_time + cool_time) * 60 * 60; an hour has SecPerHour mesh
\* seconds here.
tmax_of(scen) == (scen.rxn_time + scen.cool_time) * SecPerHour

\* ----------------------------------------------------- rxn_vent_ode parts
\* Species and mixture snapshot built from the equilibrium result u
\* (Update_Conditions, then Water/Hydrogen_Peroxide/Oxygen/Common_Properties).
\* cc.R in 1/10000 J/(mol K), cc.A_ar in 1/s, cc.Ea
R == 83145
A_ar == 135000
Ea == 10357

\* Conversion.c2k for a temperature in 1/100 degrees Celsius
c2k(T) == T + 27315

\* variant of kinetics: the exponent is -Ea / (R * T_kelvin)
kinetics_with_R(T, kf) ==
    [coef |-> A_ar * kf,
     expo |-> -Div(Div(Ea * 100000, R) * 1000, c2k(T))]

\* Kinetics.kinetics: self.rate = cc.A_ar * kf * np.exp(-cc.Ea / c2k(T)).
\* The rate constant is kept as coef * exp(expo / 100): coef in 1/s and the
\* argument of np.exp in 1/100.
kinetics(T, kf) ==
    [coef |-> A_ar * kf,
     expo |-> -Div(Ea * 10000, c2k(T))]

\* Equilibrate.equilibrate: outputA = opt.fsolve(self.VLE, initvals) is
\* unpacked into the conditions whatever the solver's outcome; out.ier is
\* the convergence flag of the solve (1: converged), which the call does
\* not ask for.
equilibrate(scen, out) ==
    [xH2O |-> out.xH2O, xH2O2 |-> Scale - out.xH2O,
     yH2O |-> out.yH2O, yH2O2 |-> out.yH2O2,
     yO2 |-> Scale - out.yH2O - out.yH2O2,
     P |-> out.P, VL |-> out.VL, VG |-> scen.VR - out.VL, xO2 |-> 0]

\* The compound and mixture objects built from the equilibrium conditions;
\* eq records how the solve behind them ended.
Snapshot(scen, u) ==
    LET e == equilibrate(scen, u)
    IN [H2O  |-> [x |-> e.xH2O, y |-> e.yH2O],
        H2O2 |-> [x |-> e.xH2O2, y |-> e.yH2O2],
        O2   |-> [x |-> e.xO2, y |-> e.yO2],
        cp   |-> [P |-> e.P, VL |-> e.VL, VG |-> e.VG, k |-> u.k,
                  vf |-> u.vf, fc |-> u.fc],
        eq   |-> [ier |-> u.ier, row |-> Unset],
        kin  |-> [rate |-> [coef |-> Unset, expo |-> Unset]]]

\* kin.rate * nH2O2 in mol/s; the rate constant is u.rate in 1/Scale per s.
\* Derivatives are numerators over DerivDen = 2 * Scale * Scale.
DerivDen == 2 * Scale * Scale

\* variant of ReactionTerms: a mole of oxygen per mole of peroxide
ReactionTerms_oxygen_not_halved(rate, nH2O2) ==
    [nH2O  |-> 2 * Scale * rate * nH2O2,
     nH2O2 |-> -(2 * Scale * rate * nH2O2),
     nO2   |-> 2 * Scale * rate * nH2O2]

ReactionTerms(rate, nH2O2) ==
    [nH2O  |-> 2 * Scale * rate * nH2O2,
     nH2O2 |-> -(2 * Scale * rate * nH2O2),
     nO2   |-> Scale * rate * nH2O2]

VentTerms(o) ==
    [nH2O  |-> FMul(FMul(2, FAdd(FMul(o.H2O.y, o.xe), FMul(o.H2O.x, FSub(Scale, o.xe)))), o.n_vent),
     nH2O2 |-> FMul(FMul(2, FAdd(FMul(o.H2O2.y, o.xe), FMul(o.H2O2.x, FSub(Scale, o.xe)))), o.n_vent),
     nO2   |-> FMul(FMul(2, FMul(o.O2.y, o.xe)), o.n_vent)]

MoleDerivs(Y, o, rate) ==
    LET r == ReactionTerms(rate, Y.nH2O2)
        v == VentTerms(o)
    IN [nH2O  |-> FSub(r.nH2O, v.nH2O),
        nH2O2 |-> FSub(r.nH2O2, v.nH2O2),
        nO2   |-> FSub(r.nO2, v.nO2)]

\* Energy balance in units of 100 W, temperatures in 1/100 degC:
\* Q_rxn = dnH2O2_dt * MH2O2 * dH_rxn (98300 J per mol consumed),
\* Q_HEx = Ux * A_wet * (T - Tj), Q_vap = latent heat of the vented vapour,
\* divided by mR * Cp (HeatCap per 1/100 K).
HeatCap == 120

\* Q_rxn = dnH2O2_dt * cc.MH2O2 * cc.dH_rxn, for the derivative as a
\* numerator over DerivDen
Q_rxn_of(dnH2O2_dt) == FMul(FDiv(dnH2O2_dt, DerivDen), -983)

ThermalDerivs(Y, o, dn, ramp) ==
    LET Q_rxn == Q_rxn_of(dn.nH2O2)
        Q_HEx == Div(135 * (Y.T - Y.Tj), 1000)
        Q_vap == FDiv(FMul(405 * (o.H2O.y + o.H2O2.y), o.n_vent), Scale)
    IN [T  |-> FDiv(FSub(FSub(Q_rxn, Q_HEx), Q_vap), HeatCap),
        Tj |-> Div(ramp, 60)]

\* the list returned by rxn_vent_ode
Derivatives(Y, o, rate, ramp) ==
    Only({ Only({ [T |-> th.T, Tj |-> th.Tj, nH2O |-> dn.nH2O,
                   nH2O2 |-> dn.nH2O2, nO2 |-> dn.nO2]
                : th \in {ThermalDerivs(Y, o, dn, ramp)} })
         : dn \in {MoleDerivs(Y, o, rate)} })

HasNaN(f) == \E c \in DOMAIN f : IsNaN(f[c])

\* Explicit step of length h from y along f (mole numerators over DerivDen).
Advance(y, f, h) ==
    [T     |-> y.T + Div(f.T * h.n, h.d),
     Tj    |-> y.Tj + Div(f.Tj * h.n, h.d),
     nH2O  |-> y.nH2O + Div(Div(f.nH2O, DerivDen) * h.n, h.d),
     nH2O2 |-> y.nH2O2 + Div(Div(f.nH2O2, DerivDen) * h.n, h.d),
     nO2   |-> y.nO2 + Div(Div(f.nO2, DerivDen) * h.n, h.d)]

\* pid_jacket(T): proportional controller with gain Kp (1/1000) and the
\* output limited to +-max_rate.
Clamp(v, lo, hi) == IF v < lo THEN lo ELSE IF v > hi THEN hi ELSE v

pid_jacket(sp, scen, T) ==
    Clamp(Div(scen.Kp * (sp - T), 1000), -scen.max_rate, scen.max_rate)

\* self.pid_jacket(T) with sample_time=0.01 and auto_mode=True: the
\* controller reads the wall clock; a call that comes before sample_time has
\* passed since the last computed output (due = FALSE) returns that output
\* again, last, unless there is none yet.  Ki and Kd are 0.
pid_call(sp, scen, T, last, due) ==
    IF due \/ last = Unset THEN pid_jacket(sp, scen, T) ELSE last

\* ---------------------------------------------------------------- state
VARIABLES
    scenario,   \* the Scenario object handed to ODE.__init__
    pc,         \* position of the driver / of integrate
    venting,    \* self.venting: "None", "False", "True"
    tc,         \* self.tc, NoCode for None
    N,          \* self.N
    t,          \* self.t, the time mesh
    data,       \* self.data, six arrays of rows
    i,          \* self.i
    k,          \* local k of integrate
    solver,     \* self.solver: t, y, success, and the derivative it holds
    setpoint,   \* self.pid_jacket.setpoint
    ramp_rate,  \* self.ramp_rate
    props,      \* self.H2O, self.H2O2, self.O2, self.cp
    vent,       \* vent fields of self: n_vent, n_vent_vap, critical_flow, xe, ...
    aux,        \* self.aux
    dY,         \* value returned by the last rxn_vent_ode call
    called,     \* ERS procedures invoked by the last vent_calc, in order
    driver,     \* position of run_scenario_menu: which integrate call it is in
    report,     \* text returned by the last termination_code()
    menu,       \* the fields of the Menu object (the session)
    created,    \* the Scenario objects the last menu operation built an ODE from
    screen      \* the menu handler that ran last

odevars == << scenario, pc, venting, tc, N, t, data, i, k, solver, setpoint,
              ramp_rate, props, vent, aux, dY, called, driver, report >>

menuvars == << menu, created, screen >>

vars == << odevars, menuvars >>

\* None of self.tc
NoCode == 0

\* The object as the ERS procedures see it.
Self == vent @@ [scenario |-> scenario, venting |-> venting,
                 H2O |-> props.H2O, H2O2 |-> props.H2O2, O2 |-> props.O2,
                 cp |-> props.cp, called |-> << >>, raised |-> FALSE]

\* --------------------------------------------------------------- inputs
\* Scenarios the configuration menu can build: the two-phase choice and the
\* flow regime are asked for only with a rupture disc; a BPR alone switches
\* the two-phase flag on.  interned: whether the interpreter shares the
\* 'churn-turbulent' literal between modules.
ScenarioBase ==
    [VR |-> 400, D |-> 68, D_RD |-> 4, D_BPR |-> 1, BPR_max_Cv |-> 55,
     Kd_RD |-> 62, P_RD |-> 1000, P_BPR |-> 200, MAWP |-> 1500,
     rxn_time |-> 1, cool_time |-> 0, T0 |-> 2500, rxn_temp |-> 11000,
     kf |-> 1, Kp |-> 16, max_rate |-> 200]

ErsChoices ==
    { [RD |-> FALSE, BPR |-> b, TF_vent |-> b, flow_regime |-> "None", interned |-> TRUE]
        : b \in BOOLEAN }
    \cup
    { [RD |-> TRUE, BPR |-> b, TF_vent |-> FALSE, flow_regime |-> "None", interned |-> TRUE]
        : b \in BOOLEAN }
    \cup
    { [RD |-> TRUE, BPR |-> b, TF_vent |-> TRUE, flow_regime |-> "bubbly", interned |-> TRUE]
        : b \in BOOLEAN }
    \cup
    { [RD |-> TRUE, BPR |-> b, TF_vent |-> TRUE, flow_regime |-> "churn-turbulent",
       interned |-> n] : b \in BOOLEAN, n \in BOOLEAN }

ScenarioSet == { e @@ ScenarioBase : e \in ErsChoices }

\* Results of one equilibrium solve and property evaluation.
InputBase ==
    [k |-> 1400, xH2O |-> 80, yH2O |-> 30, yH2O2 |-> 10, vf |-> 5, fc |-> 1,
     rate |-> 1, pG |-> 5, pL |-> 1000, U0 |-> 16, gc |-> 3, garbage |-> 0,
     ier |-> 1]

RunCases ==
    { [P |-> 150,  VL |-> 100, alpha |-> 90],
      [P |-> 150,  VL |-> 160, alpha |-> 90],
      [P |-> 500,  VL |-> 300, alpha |-> 90],
      [P |-> 500,  VL |-> 100, alpha |-> 75],
      [P |-> 1000, VL |-> 300, alpha |-> 90],
      [P |-> 1600, VL |-> 300, alpha |-> 90],
      [P |-> 1600, VL |-> 0,   alpha |-> 90],
      [P |-> 50,   VL |-> 300, alpha |-> 90],
      [P |-> 200,  VL |-> 0,   alpha |-> 90] }

\* fsolve returns its last iterate when it stops without converging
\* (ier 5: the iteration is not making good progress)
Unconverged(u) == [u EXCEPT !.ier = 5]

UnconvergedCases ==
    { [P |-> 500, VL |-> 300, alpha |-> 90], [P |-> 150, VL |-> 100, alpha |-> 90] }

RunInputs ==
    { c @@ InputBase : c \in RunCases }
      \cup { Unconverged(c @@ InputBase) : c \in UnconvergedCases }

\* State of the vessel found by Initial_Conditions at T0.
InitialInput == [P |-> 101, VL |-> 300, alpha |-> 0] @@ InputBase

InitialInputs == {InitialInput, Unconverged(InitialInput)}

Y0_of(scen) ==
    [T |-> scen.T0, Tj |-> scen.T0, nH2O |-> 1200, nH2O2 |-> 270, nO2 |-> 5]

ZeroY == [T |-> 0, Tj |-> 0, nH2O |-> 0, nH2O2 |-> 0, nO2 |-> 0]
ZeroDeriv == ZeroY

\* A row of np.zeros with the columns of the object r
ZeroRow(r) == [c \in DOMAIN r |-> 0]

\* Python indexing of a sequence
At(seq, idx) == seq[idx + 1]
Last(seq) == seq[Len(seq)]
Prefix(seq, n) == [j \in 1..n |-> seq[j]]

\* ------------------------------------------------------------- Menu
\* Menu.__init__: every field None except TF, the controller defaults and
\* the empty result lists.  Unset stands for None in numeric fields, "None"
\* in flags and names.
Menu_init ==
    [VR |-> Unset, Ux |-> Unset, AR |-> Unset, MAWP |-> Unset,
     D_RD |-> Unset, P_RD |-> Unset,
     D_BPR |-> Unset, BPR_max_Cv |-> Unset, P_BPR |-> Unset,
     TF |-> "False", RD |-> "None", BPR |-> "None", flow_regime |-> "None",
     XH2O2 |-> Unset, mR |-> Unset, kf |-> Unset,
     rxn_temp |-> Unset, rxn_time |-> Unset, T0 |-> Unset, P0 |-> Unset,
     cool_time |-> Unset,
     max_rate |-> 2 * Scale, Kp |-> 16, Kd |-> 0, Ki |-> 0,
     max_P |-> << >>, max_T |-> << >>, max_conversion |-> << >>,
     max_vent |-> << >>,
     value |-> "None", ranges |-> << >>]

\* ------------------------------------------------------------- __init__
Init ==
    /\ scenario \in ScenarioSet
    /\ pc = "constructed"
    /\ driver = "start"
    /\ venting = "None"
    /\ tc = NoCode
    /\ N = 0
    /\ t = << >>
    /\ data = << >>
    /\ i = 0
    /\ k = 0
    /\ solver = [t |-> Rat(0, 1), y |-> ZeroY, success |-> FALSE, f |-> << >>,
                 evals |-> 0]
    /\ setpoint = Unset
    /\ ramp_rate = Unset
    /\ \E u0 \in InitialInputs : props = Snapshot(scenario, u0)
    /\ vent = [n_vent |-> 0, n_vent_vap |-> Unset, critical_flow |-> FALSE,
               xe |-> Scale, TF |-> "unset", jgi |-> Unset, Xm |-> Unset,
               jgx |-> Unset, Ui |-> Unset, pG |-> Unset, pL |-> Unset,
               alpha |-> Unset, alphaves |-> Unset]
    /\ aux = [n_vent |-> 0, xe |-> Scale]
    /\ dY = ZeroDeriv
    /\ called = << >>
    /\ report = ""
    /\ menu = Menu_init
    /\ created = << >>
    /\ screen = "root_menu"

\* variant of store_data: the loop stops one array short
store_data_one_short(d, index, pr, ax) ==
    [d EXCEPT ![2][index + 1] = pr.H2O,
              ![3][index + 1] = pr.H2O2,
              ![4][index + 1] = pr.O2,
              ![5][index + 1] = pr.cp]

\* store_data(index): the rows of arrays 1..5 from H2O, H2O2, O2, cp, aux
store_data(d, index, pr, ax) ==
    [d EXCEPT ![2][index + 1] = pr.H2O,
              ![3][index + 1] = pr.H2O2,
              ![4][index + 1] = pr.O2,
              ![5][index + 1] = pr.cp,
              ![6][index + 1] = ax]

\* the six arrays of np.zeros((n, columns))
ZeroData(n, pr, ax) ==
    << [j \in 1..n |-> ZeroY],
       [j \in 1..n |-> ZeroRow(pr.H2O)],
       [j \in 1..n |-> ZeroRow(pr.H2O2)],
       [j \in 1..n |-> ZeroRow(pr.O2)],
       [j \in 1..n |-> ZeroRow(pr.cp)],
       [j \in 1..n |-> ZeroRow(ax)] >>

initialize_heatup ==
    /\ pc = "constructed"
    /\ driver = "start"
    /\ LET Y0  == Y0_of(scenario)
           n   == tmax_of(scenario)
           tt  == linspace(Rat(0, 1), Rat(tmax_of(scenario), 1), n)
       IN /\ N' = n
          /\ t' = tt
          /\ data' = [store_data(ZeroData(n, props, aux), 0, props, aux)
                        EXCEPT ![1][1] = Y0]
          /\ solver' = [t |-> tt[1], y |-> Y0, success |-> TRUE, f |-> << >>,
                        evals |-> 0]
    /\ setpoint' = scenario.rxn_temp
    /\ venting' = "False"
    /\ i' = 1
    /\ pc' = "initialized"
    /\ driver' = "heatup"
    /\ UNCHANGED << scenario, tc, k, ramp_rate, props, vent, aux, dY, called, report >>
    /\ UNCHANGED menuvars

\* -------------------------------------------------------------- integrate
\* tc = None, k = self.i, then the loop is entered
integrate_begin ==
    /\ pc \in {"initialized", "vent_initialized"}
    /\ tc' = NoCode
    /\ k' = i
    /\ pc' = "loop"
    /\ UNCHANGED << scenario, venting, N, t, data, i, solver, setpoint, ramp_rate,
                    props, vent, aux, dY, called, driver, report >>
    /\ UNCHANGED menuvars

\* while self.solver.successful() and self.solver.t < self.t[-1]
LoopCondition == solver.success /\ RLt(solver.t, Last(t))

\* variant of SetpointAt: the setpoint follows the mesh time both ways
SetpointAt_either_way(kk) ==
    IF RLe(Rat(scenario.rxn_time * SecPerHour, 1), At(t, kk))
    THEN scenario.T0 ELSE scenario.rxn_temp

\* if self.t[k] / 3600 >= self.scenario.rxn_time: setpoint = T0
SetpointAt(kk) ==
    IF RLe(Rat(scenario.rxn_time * SecPerHour, 1), At(t, kk))
    THEN scenario.T0 ELSE setpoint

\* variant of TerminationCheck: the burst condition does not look at the
\* rupture-disc flag
TerminationCheck_burst_without_disc(scen, vflag, cpo) ==
    IF vflag = "False" /\ cpo.P >= scen.P_RD THEN 1
    ELSE IF cpo.P >= scen.MAWP THEN 2
    ELSE IF cpo.VL <= 0 THEN 3
    ELSE IF scen.RD = TRUE /\ vflag = "True" /\ cpo.P < Patm THEN 4
    ELSE NoCode

\* variant of TerminationCheck: the MAWP condition is tested before the
\* rupture disc condition
TerminationCheck_mawp_first(scen, vflag, cpo) ==
    IF cpo.P >= scen.MAWP THEN 2
    ELSE IF scen.RD = TRUE /\ vflag = "False" /\ cpo.P >= scen.P_RD THEN 1
    ELSE IF cpo.VL <= 0 THEN 3
    ELSE IF scen.RD = TRUE /\ vflag = "True" /\ cpo.P < Patm THEN 4
    ELSE NoCode

\* variant of TerminationCheck: the empty-vessel condition is tested before
\* the MAWP condition
TerminationCheck_empty_first(scen, vflag, cpo) ==
    IF scen.RD = TRUE /\ vflag = "False" /\ cpo.P >= scen.P_RD THEN 1
    ELSE IF cpo.VL <= 0 THEN 3
    ELSE IF cpo.P >= scen.MAWP THEN 2
    ELSE IF scen.RD = TRUE /\ vflag = "True" /\ cpo.P < Patm THEN 4
    ELSE NoCode

\* variant of TerminationCheck: codes 2 and 3 exchanged
TerminationCheck_codes_exchanged(scen, vflag, cpo) ==
    IF scen.RD = TRUE /\ vflag = "False" /\ cpo.P >= scen.P_RD THEN 1
    ELSE IF cpo.P >= scen.MAWP THEN 3
    ELSE IF cpo.VL <= 0 THEN 2
    ELSE IF scen.RD = TRUE /\ vflag = "True" /\ cpo.P < Patm THEN 4
    ELSE NoCode

\* The termination conditions in the order of the if/elif chain; NoCode
\* when none holds.
TerminationCheck(scen, vflag, cpo) ==
    IF scen.RD = TRUE /\ vflag = "False" /\ cpo.P >= scen.P_RD THEN 1
    ELSE IF cpo.P >= scen.MAWP THEN 2
    ELSE IF cpo.VL <= 0 THEN 3
    ELSE IF scen.RD = TRUE /\ vflag = "True" /\ cpo.P < Patm THEN 4
    ELSE NoCode

\* variant of Truncate: one row after the checked row is kept
Truncate_one_more(kk) ==
    /\ t' = Prefix(t, IF kk < Len(t) THEN kk + 1 ELSE kk)
    /\ data' = [a \in 1..6 |-> Prefix(data[a], IF kk < Len(t) THEN kk + 1 ELSE kk)]
    /\ i' = IF kk < Len(t) THEN kk + 1 ELSE kk

\* self.t = self.t[:k]; self.data = [i[:k, :] for i in self.data]; self.i = k
Truncate(kk) ==
    /\ t' = Prefix(t, kk)
    /\ data' = [a \in 1..6 |-> Prefix(data[a], kk)]
    /\ i' = kk

\* the while condition is false: the loop is left without a code
loop_exit ==
    /\ pc = "loop"
    /\ ~LoopCondition
    /\ Truncate(k)
    /\ pc' = "integrated"
    /\ UNCHANGED << scenario, venting, tc, N, k, solver, setpoint, ramp_rate,
                    props, vent, aux, dY, called, driver, report >>
    /\ UNCHANGED menuvars

\* a termination condition holds at the top of the loop body: break
loop_break ==
    /\ pc = "loop"
    /\ LoopCondition
    /\ TerminationCheck(scenario, venting, props.cp) # NoCode
    /\ setpoint' = SetpointAt(k)
    /\ tc' = TerminationCheck(scenario, venting, props.cp)
    /\ Truncate(k)
    /\ pc' = "integrated"
    /\ UNCHANGED << scenario, venting, N, k, solver, ramp_rate,
                    props, vent, aux, dY, called, driver, report >>
    /\ UNCHANGED menuvars

\* variant of ControllerInput: the row of the step itself is read
ControllerInput_row_k(d, kk) == At(d[1], kk).T

\* self.data[0][k - 1, 0]
ControllerInput(d, kk) == At(d[1], kk - 1).T

\* The row of self.data that Update_Conditions(..., self.data, k) takes
\* the starting values of the equilibrium solve from: the previous step's.
Update_Conditions_row(kk) == kk - 1

\* no condition holds: the controller is called with the last recorded
\* temperature and the solver is asked for t[k]
step_begin ==
    /\ pc = "loop"
    /\ LoopCondition
    /\ TerminationCheck(scenario, venting, props.cp) = NoCode
    /\ k < MaxRows
    /\ setpoint' = SetpointAt(k)
    /\ \E due \in BOOLEAN :
          ramp_rate' = pid_call(SetpointAt(k), scenario, ControllerInput(data, k),
                                ramp_rate, due)
    /\ solver' = [solver EXCEPT !.f = << >>, !.evals = 0]
    /\ pc' = "solve"
    /\ UNCHANGED << scenario, venting, tc, N, t, data, i, k,
                    props, vent, aux, dY, called, driver, report >>
    /\ UNCHANGED menuvars

\* variant of Evaluate: vent_calc sees the mixture of the previous recorded
\* row in place of the one just computed
Evaluate_previous_row(u) ==
    Only({ vent_calc(o0, u)
         : o0 \in { [Self EXCEPT !.H2O = pr.H2O, !.H2O2 = pr.H2O2, !.O2 = pr.O2,
                                  !.cp = At(data[5], k - 1), !.pG = u.pG, !.pL = u.pL]
                     : pr \in {Snapshot(scenario, u)} } })

\* rxn_vent_ode(t, Y, k) for the equilibrium result u: new snapshots, phase
\* densities, vent_calc, aux and the derivative vector.  The result o of
\* vent_calc carries raised when a procedure left with an exception.
Evaluate(u) ==
    Only({ vent_calc(o0, u)
         : o0 \in { [Self EXCEPT !.H2O = pr.H2O, !.H2O2 = pr.H2O2, !.O2 = pr.O2,
                                  !.cp = pr.cp, !.pG = u.pG, !.pL = u.pL]
                     : pr \in {Snapshot(scenario, u)} } })

rxn_vent_ode(u) ==
    /\ pc = "solve"
    /\ \E o \in {Evaluate(u)} :
       \E f \in {Derivatives(solver.y, o, u.rate, ramp_rate)} :
          /\ props' = [Snapshot(scenario, u) EXCEPT
                          !.eq.row = Update_Conditions_row(k),
                          !.kin.rate = kinetics(solver.y.T, scenario.kf)]
          /\ vent' = [c \in DOMAIN vent |-> o[c]]
          /\ scenario' = o.scenario
          /\ called' = o.called
          /\ IF o.raised
             THEN /\ pc' = "raised"
                  /\ UNCHANGED << aux, dY, solver >>
             ELSE /\ pc' = "solve"
                  /\ aux' = [n_vent |-> o.n_vent, xe |-> o.xe]
                  /\ dY' = f
                  /\ solver' = [solver EXCEPT
                                  !.f = IF HasNaN(f) THEN @ ELSE << f >>,
                                  !.evals = 1]
    /\ UNCHANGED << venting, tc, N, t, data, i, k, setpoint, ramp_rate,
                    driver, report >>
    /\ UNCHANGED menuvars

\* variant of NextIndex: the step index skips a row
NextIndex_by_two(kk) == kk + 2

\* k += 1
NextIndex(kk) == kk + 1

\* solver.integrate(t[k]) returns; the row k is written and k advances.
\* The solver advances along the last finite derivative it was given; it
\* cannot succeed without one.
step_end ==
    /\ pc = "solve"
    /\ solver.evals > 0
    /\ \E ok \in BOOLEAN :
         /\ ok => solver.f # << >>
         /\ LET y1 == IF ok
                      THEN Advance(solver.y, solver.f[1], RSub(At(t, k), solver.t))
                      ELSE solver.y
            IN /\ solver' = [solver EXCEPT !.t = IF ok THEN At(t, k) ELSE @,
                                           !.y = y1, !.success = ok]
               /\ data' = store_data([data EXCEPT ![1][k + 1] = y1], k, props, aux)
    /\ k' = NextIndex(k)
    /\ pc' = "loop"
    /\ UNCHANGED << scenario, venting, tc, N, t, i, setpoint, ramp_rate,
                    props, vent, aux, dY, called, driver, report >>
    /\ UNCHANGED menuvars

\* variant of max_P: the smallest recorded pressure
max_P_smallest(d) ==
    LET ps == { d[5][j].P : j \in DOMAIN d[5] }
    IN IF \E p \in ps : IsNaN(p) THEN NaN
       ELSE CHOOSE m \in ps : \A p \in ps : m <= p

\* Stats.max_P: np.max of the pressure column of the cp array
max_P(d) ==
    LET ps == { d[5][j].P : j \in DOMAIN d[5] }
    IN IF \E p \in ps : IsNaN(p) THEN NaN
       ELSE CHOOSE m \in ps : \A p \in ps : p <= m

\* ---------------------------------------------------------------- driver
termination_code(code, tt, tmax) ==
    IF code = 1 THEN "Process Finished Successfully (Rupture disc burst)"
    ELSE IF code = 2 THEN "Process Finished Prematurely (Vessel pressure exceeds maximum allowable working pressure)"
    ELSE IF code = 3 THEN "Process Finished Prematurely (Vessel has been fully emptied)"
    ELSE IF code = 4 THEN "Process Finished Successfully (Vessel vented successfully)"
    ELSE IF code = NoCode
         THEN IF Last(tt) = Rat(tmax, 1)
              THEN "Process Finished Successfully (Maximum reaction time reached)"
              ELSE "Integration Exited Early (See error code)"
    ELSE "Unknown error"

\* tc = ode1.termination_code() after an integrate call
report_code ==
    /\ pc = "integrated"
    /\ report' = termination_code(tc, t, tmax_of(scenario))
    /\ pc' = "reported"
    /\ UNCHANGED << scenario, venting, tc, N, t, data, i, k, solver, setpoint,
                    ramp_rate, props, vent, aux, dY, called, driver >>
    /\ UNCHANGED menuvars

\* variant of ShouldVent: venting follows any termination code
ShouldVent_any_code == scenario.RD = TRUE /\ tc # NoCode

\* if self.RD is True and ode1.tc == 1:
ShouldVent == scenario.RD = TRUE /\ tc = 1

\* variant of pad: one row too many
pad_one_more(a, n) == a \o [j \in 1..(n + 1) |-> ZeroRow(a[1])]

\* np.pad(a, ((0, n), (0, 0)), 'constant'): n rows of zeros after the rows of a
pad(a, n) == a \o [j \in 1..n |-> ZeroRow(a[1])]

\* variant of vent_mesh: the appended mesh starts at the last heatup time
vent_mesh_from_last(tlast, tmax, n) == linspace(tlast, tmax, n - 1)

\* np.linspace(self.t[self.i - 1] + (self.tmax - self.t[self.i - 1])/self.N,
\*             self.tmax, self.N - 1)
vent_mesh(tlast, tmax, n) ==
    linspace(RAdd(tlast, RDivInt(RSub(tmax, tlast), n)), tmax, n - 1)

\* ode1.initialize_vent(integrator='vode')
initialize_vent ==
    /\ pc = "reported"
    /\ driver = "heatup"
    /\ ShouldVent
    /\ LET tmax == Rat(tmax_of(scenario), 1)
           tlast == At(t, i - 1)
           n    == Trunc(RMulInt(RSub(tmax, tlast), MeshDensity))
           more == vent_mesh(tlast, tmax, n)
       IN /\ N' = n
          /\ t' = t \o more
          /\ data' = [a \in 1..6 |-> pad(data[a], n - 1)]
          /\ solver' = [t |-> tlast, y |-> At(data[1], i - 1), success |-> TRUE,
                        f |-> << >>, evals |-> 0]
    /\ venting' = "True"
    /\ pc' = "vent_initialized"
    /\ driver' = "vent"
    /\ UNCHANGED << scenario, tc, i, k, setpoint, ramp_rate, props, vent, aux,
                    dY, called, report >>
    /\ UNCHANGED menuvars

Next ==
    \/ initialize_heatup
    \/ integrate_begin
    \/ loop_exit
    \/ loop_break
    \/ step_begin
    \/ \E u \in RunInputs : rxn_vent_ode(u)
    \/ step_end
    \/ report_code
    \/ initialize_vent

Spec == Init /\ [][Next]_vars

\* ------------------------------------------------- configuration menus
\* Answers of the prompts; Num_Validator admits numbers >= 0 only.
ErsAnswers ==
    [RD : BOOLEAN, BPR : BOOLEAN,
     tf : {"All Vapour Venting", "Two-Phase Bubbly", "Two-Phase Churn-Turbulent"},
     D_RD : {4}, P_RD : {1000}, D_BPR : {1}, P_BPR : {200}, Cv_BPR : {55}]

VesselAnswers == [VR : {100}, AR : {150}, Ux : {450}, MAWP : {1500}]

RxnAnswers ==
    [XH2O2 : {30}, mR : {304}, T0 : {2500}, Trxn : {11000}, P0 : {101},
     kf : {1}, t_rxn : {1}, t_cool : {0}]

PidAnswers == [max_rate : {300}, Kp : {16}, Ki : {0}, Kd : {0}]

MaxSpan == 2

SensitivityAnswers ==
    [Sensitivity : {"Rupture Disc Burst Pressure",
                    "Backpressure Regulator Set-Point", "Contamination Factor"},
     min : {800}, max : {1200}, range : 1..MaxSpan]

\* the statistics of one run of the sensitivity sweep (Stats.max_P, max_T,
\* max_conversion, max_vent of its ODE object): a run that never vented and
\* a run that vented
RunResults ==
    { [max_P |-> 1000, max_T |-> 11000, max_conversion |-> 50, max_vent |-> 0],
      [max_P |-> 1600, max_T |-> 15000, max_conversion |-> 90, max_vent |-> 31] }

\* the result lists of a session are kept this short
MaxStats == 2

\* Conversion.g2l
g2l(volume_gal) == Div(volume_gal * 378541, 100000)

setup_ers_menu_tf(m, a) ==
    IF a.tf = "All Vapour Venting" THEN [m EXCEPT !.TF = "False"]
    ELSE IF a.tf = "Two-Phase Bubbly"
         THEN [m EXCEPT !.TF = "True", !.flow_regime = "bubbly"]
         ELSE [m EXCEPT !.TF = "True", !.flow_regime = "churn-turbulent"]

setup_ers_menu_rd(m, a) == [m EXCEPT !.D_RD = a.D_RD, !.P_RD = a.P_RD]

setup_ers_menu_bpr(m, a) ==
    [m EXCEPT !.D_BPR = a.D_BPR, !.P_BPR = a.P_BPR, !.BPR_max_Cv = a.Cv_BPR]

\* variant of ErsDevices: the flags are set, the device prompts are skipped
ErsDevices_flags_only(m, a) == m

\* the device prompts of setup_ers_menu_design, for the flags just set
ErsDevices(m, a) ==
    LET m1 == IF m.RD = "True"
              THEN setup_ers_menu_rd(setup_ers_menu_tf(m, a), a)
              ELSE m
    IN IF m1.BPR = "True" THEN setup_ers_menu_bpr(m1, a) ELSE m1

\* the flags of setup_ers_menu_design from the checkbox answer
ErsFlags(m, a) ==
    [m EXCEPT !.RD = IF a.RD THEN "True" ELSE "False",
              !.BPR = IF a.BPR THEN "True" ELSE "False",
              !.TF = IF a.RD \/ a.BPR THEN "True" ELSE @]

setup_ers_menu_design(a) ==
    /\ screen # "crashed"
    /\ menu' = ErsDevices(ErsFlags(menu, a), a)
    /\ created' = << >>
    /\ screen' = "setup_ers_menu_design"
    /\ UNCHANGED odevars

setup_vessel_menu(a) ==
    /\ screen # "crashed"
    /\ menu' = [menu EXCEPT !.VR = a.VR, !.AR = a.AR, !.Ux = a.Ux, !.MAWP = a.MAWP]
    /\ created' = << >>
    /\ screen' = "setup_vessel_menu"
    /\ UNCHANGED odevars

setup_rxn_menu(a) ==
    /\ screen # "crashed"
    /\ menu' = [menu EXCEPT !.XH2O2 = Div(a.XH2O2 * Scale, 100), !.mR = a.mR,
                            !.T0 = a.T0, !.rxn_temp = a.Trxn, !.P0 = a.P0,
                            !.kf = a.kf, !.rxn_time = a.t_rxn,
                            !.cool_time = a.t_cool]
    /\ created' = << >>
    /\ screen' = "setup_rxn_menu"
    /\ UNCHANGED odevars

setup_pid_menu(a) ==
    /\ screen # "crashed"
    /\ menu' = [menu EXCEPT !.max_rate = a.max_rate, !.Kp = a.Kp,
                            !.Ki = a.Ki, !.Kd = a.Kd]
    /\ created' = << >>
    /\ screen' = "setup_pid_menu"
    /\ UNCHANGED odevars

\* self.value, then self.ranges = np.linspace(min, max, span)
setup_scenario_sensitivity_menu(a) ==
    /\ screen # "crashed"
    /\ menu' = [menu EXCEPT
                  !.value = a.Sensitivity,
                  !.ranges = [j \in 1..a.range |->
                                Trunc(linspace(Rat(a.min, 1), Rat(a.max, 1), a.range)[j])]]
    /\ created' = << >>
    /\ screen' = "setup_scenario_sensitivity_menu"
    /\ UNCHANGED odevars

\* None in [self.VR, self.RD, self.kf]
Refused(m) == m.VR = Unset \/ m.RD = "None" \/ m.kf = Unset

\* The Scenario object built from the fields of the menu.
Scenario(m) ==
    [VR |-> g2l(m.VR), rxn_temp |-> m.rxn_temp, rxn_time |-> m.rxn_time,
     XH2O2 |-> m.XH2O2, mR |-> m.mR, D_RD |-> m.D_RD, P_RD |-> m.P_RD,
     P_BPR |-> m.P_BPR, D_BPR |-> m.D_BPR, BPR_max_Cv |-> m.BPR_max_Cv,
     P0 |-> m.P0, kf |-> m.kf, T0 |-> m.T0, Ux |-> m.Ux, AR |-> m.AR,
     MAWP |-> m.MAWP, max_rate |-> m.max_rate, Kp |-> m.Kp, Ki |-> m.Ki,
     Kd |-> m.Kd, flow_regime |-> m.flow_regime, BPR |-> m.BPR, RD |-> m.RD,
     cool_time |-> m.cool_time, TF_vent |-> m.TF]

\* run_scenario_menu: refused, or one ODE object is built from the scenario
\* and integrated; an exception leaving the integration ends the program.
run_scenario_menu ==
    /\ screen # "crashed"
    /\ IF Refused(menu)
       THEN /\ created' = << >>
            /\ screen' = "run_scenario_menu"
       ELSE /\ created' = << Scenario(menu) >>
            /\ \E raised \in BOOLEAN :
                  screen' = IF raised THEN "crashed" ELSE "run_scenario_menu"
    /\ UNCHANGED << menu, odevars >>

\* the assignment of one range value to the swept field of the scenario
SensitivityWrite(scen, value, v) ==
    CASE value = "Rupture Disc Diameter" -> [scen EXCEPT !.D_RD = v]
      [] value = "Rupture Disc Burst Pressure" -> [scen EXCEPT !.P_RD = v]
      [] value = "Backpressure Regulator Set-Point" -> [scen EXCEPT !.P_BPR = v]
      [] value = "Hydrogen Peroxide Concentration" ->
            [scen EXCEPT !.XH2O2 = Div(v * Scale, 100)]
      [] value = "Reactor Charge" -> [scen EXCEPT !.mR = v]
      [] value = "Contamination Factor" -> [scen EXCEPT !.kf = v]
      [] value = "Reaction Temperature" -> [scen EXCEPT !.rxn_temp = v]
      [] OTHER -> scen

\* the scenario object as the j-th pass of the sweep hands it to ODE.ODE:
\* the writes of the earlier passes stay in the object
RECURSIVE SweepScenario(_, _, _, _)
SweepScenario(scen, value, ranges, j) ==
    IF j = 0 THEN scen
    ELSE SensitivityWrite(SweepScenario(scen, value, ranges, j - 1), value, ranges[j])

AppendAll(seq, f) == seq \o [j \in DOMAIN f |-> f[j]]

\* run_sensitivity_menu: refused when the scenario or the sensitivity is
\* not specified; else Sensitivity.sensitivity runs the sweep, done passes
\* of which complete and append their results.  An exception in a pass is
\* caught by the menu and ends the sweep after that pass's ODE was built.
run_sensitivity_menu ==
    /\ screen # "crashed"
    /\ screen' = "run_sensitivity_menu"
    /\ IF Refused(menu) \/ menu.value = "None"
       THEN /\ created' = << >>
            /\ menu' = menu
       ELSE \E done \in 0..Len(menu.ranges) :
            \E res \in [1..done -> RunResults] :
               /\ Len(menu.max_P) + done <= MaxStats
               /\ \E built \in {done, IF done < Len(menu.ranges) THEN done + 1 ELSE done} :
                    created' = [j \in 1..built |->
                                  SweepScenario(Scenario(menu), menu.value, menu.ranges, j)]
               /\ menu' = [menu EXCEPT
                     !.max_P = AppendAll(@, [j \in 1..done |-> res[j].max_P]),
                     !.max_T = AppendAll(@, [j \in 1..done |-> res[j].max_T]),
                     !.max_conversion = AppendAll(@, [j \in 1..done |-> res[j].max_conversion]),
                     !.max_vent = AppendAll(@, [j \in 1..done |-> res[j].max_conversion])]
    /\ UNCHANGED odevars

MenuInit ==
    /\ Init
    /\ scenario.RD = FALSE /\ scenario.BPR = FALSE
    /\ props.eq.ier = 1

MenuNext ==
    \/ \E a \in ErsAnswers : setup_ers_menu_design(a)
    \/ \E a \in VesselAnswers : setup_vessel_menu(a)
    \/ \E a \in RxnAnswers : setup_rxn_menu(a)
    \/ \E a \in PidAnswers : setup_pid_menu(a)
    \/ \E a \in SensitivityAnswers : setup_scenario_sensitivity_menu(a)
    \/ run_scenario_menu
    \/ run_sensitivity_menu

MenuSpec == MenuInit /\ [][MenuNext]_vars

\* ================================================================ claims

\* C1: across a run the phase only moves forward.  While the driver is in
\* the heatup integration the venting flag is False; the flag becomes True
\* only by initialize_vent, which the driver runs only after the heatup
\* integrate was reported, with the rupture disc enabled and tc = 1; once
\* True the flag never changes again.
C1_PhaseForward ==
    [][ /\ (driver' = "heatup" => venting' = "False")
        /\ (venting # "True" /\ venting' = "True"
              => /\ driver = "heatup" /\ driver' = "vent"
                 /\ pc = "reported" /\ pc' = "vent_initialized"
                 /\ scenario.RD = TRUE /\ tc = 1)
        /\ (venting = "True" => venting' = "True")
        /\ (driver = "vent" => driver' = "vent") ]_vars

\* a run that went through heatup and venting and is over
C1_Witness ==
    driver = "vent" /\ pc = "reported" /\ venting = "True" /\ tc = 4

\* C2: every vent_calc takes exactly one path, in this order: rupture disc
\* configured and venting -> rupture-disc procedures against Patm, whatever
\* the BPR settings and the pressure; else BPR configured and P > P_BPR
\* (and P < P_RD when a rupture disc is configured) -> the BPR vent flow
\* against P_BPR only; else nothing is called, n_vent = 0 and xe = 1.
C2_DecisionOrder ==
    LET evaluated == pc = "raised" \/ (pc = "solve" /\ solver.evals > 0)
        discharging == scenario.RD = TRUE /\ venting = "True"
        bpr_open == /\ scenario.BPR = TRUE
                    /\ props.cp.P > scenario.P_BPR
                    /\ (scenario.RD = TRUE => props.cp.P < scenario.P_RD)
    IN evaluated =>
         /\ discharging =>
              /\ Len(called) >= 2
              /\ called[1] = [proc |-> "crit_flow", Pd |-> Patm]
              /\ called[2] = [proc |-> "ventflow", Pd |-> Patm]
              /\ \A j \in DOMAIN called : called[j].Pd \in {Patm, Unset}
         /\ (~discharging /\ bpr_open) =>
              called = << [proc |-> "ventflow", Pd |-> scenario.P_BPR] >>
         /\ (~discharging /\ ~bpr_open) =>
              called = << >> /\ vent.n_vent = 0 /\ vent.xe = Scale

\* the rupture-disc path is taken at a pressure where the BPR would be open
C2_Witness ==
    /\ pc = "solve" /\ solver.evals > 0
    /\ scenario.RD = TRUE /\ venting = "True" /\ scenario.BPR = TRUE
    /\ props.cp.P > scenario.P_BPR /\ props.cp.P < scenario.P_RD
    /\ Len(called) >= 2 /\ called[1].proc = "crit_flow"

\* C3: an evaluation on the BPR path is vapour only: xe = 1, n_vent is the
\* vapour flow n_vent_vap, neither two_phase nor flow_twophase is called
\* even with TF_vent enabled, and critical_flow is not True.
C3_BPRVapourOnly ==
    LET evaluated == pc = "raised" \/ (pc = "solve" /\ solver.evals > 0)
        discharging == scenario.RD = TRUE /\ venting = "True"
        bpr_open == /\ scenario.BPR = TRUE
                    /\ props.cp.P > scenario.P_BPR
                    /\ (scenario.RD = TRUE => props.cp.P < scenario.P_RD)
    IN (evaluated /\ ~discharging /\ bpr_open) =>
         /\ pc = "solve"
         /\ vent.xe = Scale /\ aux.xe = Scale
         /\ vent.n_vent = vent.n_vent_vap /\ aux.n_vent = vent.n_vent_vap
         /\ \A j \in DOMAIN called :
               called[j].proc \notin {"two_phase", "flow_twophase", "crit_flow"}
         /\ vent.critical_flow # TRUE

\* BPR path with the two-phase flag on, at a pressure whose critical
\* pressure lies above P_BPR
C3_Witness ==
    /\ pc = "solve" /\ solver.evals > 0
    /\ venting = "False" /\ scenario.BPR = TRUE /\ scenario.TF_vent = TRUE
    /\ props.cp.P > scenario.P_BPR /\ props.cp.P < scenario.P_RD
    /\ critical_pressure(props.cp.k, props.cp.P) > scenario.P_BPR
    /\ vent.n_vent > 0 /\ vent.critical_flow = FALSE

\* C4: in rupture-disc venting with TF_vent enabled, two_phase sets TF False
\* exactly when alpha <= alphaves = (VR - VL)/VR and True otherwise; with
\* TF False the flow is the vapour flow and xe = 1; flow_twophase is called
\* if and only if TF is True.
C4_TwoPhaseDecision ==
    (/\ pc = "solve" /\ solver.evals > 0
     /\ scenario.RD = TRUE /\ venting = "True" /\ scenario.TF_vent = TRUE) =>
       /\ vent.alphaves = Div((scenario.VR - props.cp.VL) * Scale, scenario.VR)
       /\ vent.TF \in {"False", "True"}
       /\ vent.TF = "False" <=> (~IsNaN(vent.alpha) /\ vent.alpha <= vent.alphaves)
       /\ vent.TF = "False" =>
             vent.n_vent = vent.n_vent_vap /\ vent.xe = Scale
       /\ vent.TF = "True" <=>
             (\E j \in DOMAIN called : called[j].proc = "flow_twophase")
       /\ vent.TF = "True" => called[Len(called)].proc = "flow_twophase"

\* the boundary alpha = alphaves: single-phase
C4_Witness ==
    /\ pc = "solve" /\ solver.evals > 0
    /\ scenario.RD = TRUE /\ venting = "True" /\ scenario.TF_vent = TRUE
    /\ vent.TF = "False" /\ vent.alpha = vent.alphaves
    /\ vent.n_vent = vent.n_vent_vap /\ vent.n_vent > 0

\* C5: the exit quality xe lies in [0, 1] in the vent state, in aux and in
\* every recorded row.
C5_ExitQualityInRange ==
    /\ vent.xe \in 0..Scale
    /\ aux.xe \in 0..Scale
    /\ data # << >> => \A j \in DOMAIN data[6] : data[6][j].xe \in 0..Scale

\* C6: termination conditions are looked at only between steps.  tc is
\* written only at the top of the loop (or reset on entry of integrate);
\* a code is set from the cp recorded in row k - 1; a step begins only when
\* no condition holds; while a step runs tc does not change and the loop is
\* not left, and when the step returns row k holds the solver state and
\* the objects in full and k has advanced.  (A step is otherwise left only
\* by an exception, which ends the program.)
C6_ChecksBetweenSteps ==
    [][ /\ (tc' # tc => pc \in {"initialized", "vent_initialized", "loop"})
        /\ (tc' # tc /\ tc' # NoCode
              => /\ pc = "loop" /\ pc' = "integrated"
                 /\ props.cp = At(data[5], k - 1)
                 /\ tc' = TerminationCheck(scenario, venting, At(data[5], k - 1)))
        /\ (pc = "loop" /\ pc' = "solve"
              => TerminationCheck(scenario, venting, At(data[5], k - 1)) = NoCode)
        /\ (pc = "solve" => tc' = tc /\ pc' \in {"solve", "loop", "raised"})
        /\ (pc = "solve" /\ pc' = "loop"
              => /\ k' = k + 1
                 /\ At(data'[1], k) = solver'.y
                 /\ At(data'[2], k) = props.H2O
                 /\ At(data'[3], k) = props.H2O2
                 /\ At(data'[4], k) = props.O2
                 /\ At(data'[5], k) = props.cp
                 /\ At(data'[6], k) = aux) ]_vars

\* a code set at the check that follows a recorded step of the venting phase
C6_Witness ==
    /\ pc = "integrated" /\ tc = 4 /\ venting = "True"
    /\ k >= 3 /\ Len(t) = k
    /\ At(data[5], k - 1) = props.cp

\* C7: a code is set only when its condition held at the check: 1 only with
\* RD enabled, venting False and P >= P_RD; 2 only with P >= MAWP; 3 only
\* with VL <= 0; 4 only with RD enabled, venting True and P < Patm; and
\* termination_code() reports codes 1..4 as burst, MAWP exceeded, emptied
\* and vented.
C7_CodesMatchConditions ==
    [][ /\ (tc' # tc /\ tc' = 1
              => scenario.RD = TRUE /\ venting = "False"
                 /\ props.cp.P >= scenario.P_RD)
        /\ (tc' # tc /\ tc' = 2 => props.cp.P >= scenario.MAWP)
        /\ (tc' # tc /\ tc' = 3 => props.cp.VL <= 0)
        /\ (tc' # tc /\ tc' = 4
              => scenario.RD = TRUE /\ venting = "True" /\ props.cp.P < Patm)
        /\ (pc = "integrated" /\ pc' = "reported"
              => /\ tc = 1 => report' = "Process Finished Successfully (Rupture disc burst)"
                 /\ tc = 2 => report' = "Process Finished Prematurely (Vessel pressure exceeds maximum allowable working pressure)"
                 /\ tc = 3 => report' = "Process Finished Prematurely (Vessel has been fully emptied)"
                 /\ tc = 4 => report' = "Process Finished Successfully (Vessel vented successfully)") ]_vars

\* code 2 in the venting phase, at a pressure that would have been code 1
\* during heatup, reported as MAWP exceeded
C7_Witness ==
    /\ pc = "reported" /\ tc = 2 /\ venting = "True" /\ scenario.RD = TRUE
    /\ props.cp.P >= scenario.MAWP /\ props.cp.VL > 0
    /\ report = "Process Finished Prematurely (Vessel pressure exceeds maximum allowable working pressure)"

\* C8: when integrate ends on a solver failure, with no termination code,
\* termination_code() reports "Integration Exited Early".
C8_FailureReportedEarly ==
    (pc = "reported" /\ ~solver.success /\ tc = NoCode)
       => report = "Integration Exited Early (See error code)"

\* C9: initialize_vent and the venting integrate keep the first i time
\* points and the first i rows of every array, i the number of rows of the
\* heatup; rows are only added after them, and t and the arrays have equal
\* lengths.
C9_HistoryPreserved ==
    [][ venting' = "True"
          => /\ venting = "False" => (Len(t) = i /\ i' = i)
             /\ i' >= i
             /\ Len(t') >= i
             /\ \A j \in 1..i :
                   /\ t'[j] = t[j]
                   /\ \A a \in 1..6 : data'[a][j] = data[a][j]
             /\ \A a \in 1..6 : Len(data'[a]) = Len(t') ]_vars

\* the venting integrate has returned with rows added to those of the heatup
C9_Witness ==
    /\ driver = "vent" /\ pc = "reported"
    /\ Len(t) >= 4 /\ i = Len(t)
    /\ t[2] = Rat(tmax_of(scenario), 2)
    /\ \A a \in 1..6 : Len(data[a]) = Len(t)

\* C10: the derivative of the H atoms 2*nH2O + 2*nH2O2 and of the O atoms
\* nH2O + 2*nH2O2 + 2*nO2 has no reaction part; it is the atoms of the
\* vented stream, n_vent times the vented share of each species (vapour
\* fraction at quality xe, liquid fraction at 1 - xe).  Numerators over
\* DerivDen, fractions and xe in 1/Scale.
C10_AtomBalance ==
    (pc = "solve" /\ solver.evals > 0 /\ ~HasNaN(dY)) =>
       LET xe == aux.xe
           lq == Scale - aux.xe
       IN /\ dY.nH2O + dY.nH2O2 =
               -(2 * ((props.H2O.y + props.H2O2.y) * xe
                      + (props.H2O.x + props.H2O2.x) * lq) * aux.n_vent)
          /\ dY.nH2O + 2 * dY.nH2O2 + 2 * dY.nO2 =
               -(2 * ((props.H2O.y + 2 * props.H2O2.y + 2 * props.O2.y) * xe
                      + (props.H2O.x + 2 * props.H2O2.x) * lq) * aux.n_vent)

\* a two-phase discharge while peroxide is reacting
C10_Witness ==
    /\ pc = "solve" /\ solver.evals > 0 /\ ~HasNaN(dY)
    /\ aux.n_vent > 0 /\ aux.xe > 0 /\ aux.xe < Scale
    /\ solver.y.nH2O2 > 0 /\ dY.nO2 # 0

\* C11 as stated: in every step the setpoint is the reaction temperature
\* when the mesh time t[k] of the step is before the reaction time and T0
\* when it is at or after it.
C11_SetpointByMeshTime ==
    pc = "solve" =>
       setpoint = IF RLe(Rat(scenario.rxn_time * SecPerHour, 1), At(t, k))
                  THEN scenario.T0 ELSE scenario.rxn_temp

\* C11 amended: the setpoint is written only by initialize_heatup and at
\* the top of a loop iteration; once T0 it stays T0, also across
\* initialize_vent; a step starts with T0 exactly when its own mesh time or
\* that of an earlier iteration is at or after the reaction time; and in
\* the heatup every step has the setpoint its mesh time calls for.
C11_SetpointLatch ==
    [][ /\ (setpoint' # setpoint => pc \in {"constructed", "loop"})
        /\ (setpoint = scenario.T0 => setpoint' = scenario.T0)
        /\ (pc = "loop" /\ pc' = "solve"
              => /\ setpoint' \in {scenario.T0, scenario.rxn_temp}
                 /\ setpoint' = scenario.T0
                      <=> (\/ setpoint = scenario.T0
                           \/ RLe(Rat(scenario.rxn_time * SecPerHour, 1), At(t, k)))
                 /\ driver = "heatup"
                      => (setpoint' = scenario.T0
                            <=> RLe(Rat(scenario.rxn_time * SecPerHour, 1), At(t, k)))) ]_vars

\* a venting step before the reaction time that runs with T0: the burst was
\* found at the heatup iteration that switched the setpoint
C11_Witness ==
    /\ pc = "solve" /\ venting = "True"
    /\ setpoint = scenario.T0
    /\ ~RLe(Rat(scenario.rxn_time * SecPerHour, 1), At(t, k))

\* C12: no operation of the integration core writes a field of the
\* Scenario: the object is the same after every step of a run.
C12_ScenarioUnchanged ==
    [][scenario' = scenario]_vars

\* a run over heatup and venting, with evaluations on the BPR and on the
\* rupture-disc path behind it
C12_Witness ==
    /\ driver = "vent" /\ pc = "reported" /\ Len(t) >= 3
    /\ scenario \in ScenarioSet /\ scenario.BPR = TRUE
    /\ called # << >>

\* C13: a run is a function of the Scenario and of the instance: the
\* jacket ramp rate of a step is the same whatever the wall clock says when
\* the controller is called.
C13_ClockFree ==
    [][ (pc = "loop" /\ pc' = "solve")
          => \A due \in BOOLEAN :
                ramp_rate' = pid_call(SetpointAt(k), scenario,
                                      At(data[1], k - 1).T, ramp_rate, due) ]_vars

\* C14: two_phase called again on the object it has just written, with the
\* same inputs (vapour flow, densities, liquid volume, geometry, regime and
\* the same equilibrium result u), gives the same alpha, alphaves and TF.
C14_TwoPhaseIdempotent ==
    (/\ pc = "solve" /\ solver.evals > 0
     /\ \E j \in DOMAIN called : called[j].proc = "two_phase")
      => \A u \in RunInputs :
            (u.P = props.cp.P /\ u.VL = props.cp.VL)
              => \A o2 \in {two_phase(Self, u)} :
                    /\ ~o2.raised
                    /\ o2.alpha = vent.alpha
                    /\ o2.alphaves = vent.alphaves
                    /\ o2.TF = vent.TF
                    /\ o2.jgx = vent.jgx

\* a two-phase decision from a computed void fraction, after which the
\* object holds jgx, TF, jgi and Xm of that call
C14_Witness ==
    /\ pc = "solve" /\ solver.evals > 0
    /\ scenario.flow_regime = "bubbly"
    /\ \E j \in DOMAIN called : called[j].proc = "two_phase"
    /\ vent.TF = "True" /\ vent.alpha > vent.alphaves /\ vent.jgx > 0

\* C15: integrate terminates by a decreasing measure.  The step index stays
\* within the mesh (i <= k <= len(t), and t[k] exists whenever the loop body
\* runs), every iteration of the loop body advances it by exactly one, and
\* with the mesh exhausted the loop condition is false, so that the loop is
\* left after at most len(t) - i iterations, with the step index as the
\* number of rows kept.
C15_LoopTerminates ==
    /\ [](pc \in {"loop", "solve"} =>
            /\ i <= k /\ k <= Len(t)
            /\ (pc = "solve" \/ LoopCondition) => k < Len(t)
            /\ k = Len(t) => ~LoopCondition)
    /\ [][/\ (pc = "loop" /\ pc' = "solve") => k' = k
          /\ (pc = "solve" /\ pc' = "solve") => k' = k
          /\ (pc = "solve" /\ pc' = "loop") => k' = k + 1
          /\ (pc = "loop" /\ pc' = "integrated") => (i' = k /\ Len(t') = k)]_vars

\* the loop was left because the mesh was exhausted: every row of the mesh
\* was integrated and no termination condition was met
C15_Witness ==
    /\ pc = "integrated" /\ tc = NoCode /\ solver.success
    /\ i = Len(t) /\ i > 2 /\ solver.t = Last(t)

\* C16: with the rupture disc enabled, a check at the top of the heatup loop
\* body that finds the last recorded pressure at or above P_RD ends heatup
\* with tc 1 and keeps the rows recorded so far; a heatup step is only taken
\* when every recorded row is below P_RD; and a heatup that ended with a
\* code on such a row ended with code 1.  (A row recorded by the step that
\* ends the loop condition is followed by no check.)
C16_BurstAtFirstCheck ==
    /\ []((scenario.RD = TRUE /\ venting = "False" /\ pc = "solve")
            => \A j \in 1..k : data[5][j].P < scenario.P_RD)
    /\ []((scenario.RD = TRUE /\ venting = "False" /\ tc # NoCode
           /\ pc \in {"integrated", "reported"}
           /\ At(data[5], i - 1).P >= scenario.P_RD)
            => tc = 1)
    /\ [][(/\ pc = "loop" /\ LoopCondition
           /\ scenario.RD = TRUE /\ venting = "False"
           /\ At(data[5], k - 1).P >= scenario.P_RD)
            => (pc' = "integrated" /\ tc' = 1 /\ i' = k /\ Len(t') = k)]_vars

\* heatup ended with code 1 after at least one step, on a recorded pressure
\* that also exceeds MAWP
C16_Witness ==
    /\ pc = "integrated" /\ tc = 1 /\ venting = "False" /\ i >= 2
    /\ At(data[5], i - 1).P >= scenario.MAWP
    /\ \A j \in 1..(i - 1) : data[5][j].P < scenario.P_RD

\* C17 (as stated): in a scenario with the rupture disc only and two-phase
\* venting disabled, no recorded row has a pressure above P_RD: max_P is at
\* most P_RD.
C17_MaxPressureIsSetPressure ==
    (scenario.RD = TRUE /\ scenario.BPR = FALSE /\ scenario.TF_vent = FALSE
     /\ pc \in {"integrated", "reported"})
      => max_P(data) <= scenario.P_RD

\* C17 (amended): in such a scenario, when a phase has ended, every row
\* recorded in heatup before the last heatup row is below P_RD and every row
\* before the last recorded row is below MAWP; after a burst max_P is at
\* least P_RD.  The row on which the burst is detected and the rows of the
\* venting phase are not bounded by P_RD.
C17_MaxPressureBounds ==
    (scenario.RD = TRUE /\ scenario.BPR = FALSE /\ scenario.TF_vent = FALSE
     /\ pc \in {"integrated", "reported"})
      => /\ \A j \in 1..(i - 1) : data[5][j].P < scenario.MAWP
         /\ venting = "False" => \A j \in 1..(i - 1) : data[5][j].P < scenario.P_RD
         /\ (tc = 1 \/ venting = "True") => max_P(data) >= scenario.P_RD

\* a vapour-only venting run has ended with rows recorded in venting and a
\* recorded pressure above the set pressure of the disc
C17_Witness ==
    /\ scenario.RD = TRUE /\ scenario.BPR = FALSE /\ scenario.TF_vent = FALSE
    /\ pc = "reported" /\ venting = "True"
    /\ \E j \in 1..(i - 1) : data[5][j].P >= scenario.P_RD /\ data[5][j + 1].P < data[5][j].P
    /\ max_P(data) > scenario.P_RD

\* C18: an evaluation whose equilibrium solve did not converge aborts the
\* step as an error: a step never continues with, or records, the
\* conditions of an unconverged solve.
C18_FailureAbortsStep ==
    [][(pc = "solve" /\ props'.eq.ier # 1) => pc' = "raised"]_vars

\* C19: after an abnormal end (the solver failed, or an exception left the
\* evaluation of a step) t and the six data arrays hold exactly the k rows
\* recorded so far, with equal lengths and no zero-filled rows after them,
\* and the report obtained for the run is "Integration Exited Early".
C19_PartialTrajectoryKept ==
    /\ (pc = "raised" \/ (pc \in {"integrated", "reported"} /\ ~solver.success))
         => /\ Len(t) = k
            /\ \A a \in 1..6 : Len(data[a]) = k
    /\ (pc = "reported" /\ ~solver.success /\ tc = NoCode)
         => report = "Integration Exited Early (See error code)"

\* C20: a run operation on a menu with VR, the rupture-disc flag or kf
\* unset builds no ODE object and leaves the session as it was; and every
\* scenario an ODE object is built from, by a single run or by a pass of
\* the sensitivity sweep, has P_RD and D_RD set when the rupture disc is
\* enabled and P_BPR set when the BPR is enabled.
C20_RunOnlyWhenConfigured ==
    /\ [][(/\ screen' \in {"run_scenario_menu", "run_sensitivity_menu", "crashed"}
           /\ (menu.VR = Unset \/ menu.RD = "None" \/ menu.kf = Unset))
            => (created' = << >> /\ menu' = menu /\ screen' # "crashed")]_vars
    /\ [](\A j \in DOMAIN created :
            /\ created[j].VR # Unset /\ created[j].RD # "None" /\ created[j].kf # Unset
            /\ created[j].RD = "True"
                 => (created[j].P_RD # Unset /\ created[j].D_RD # Unset)
            /\ created[j].BPR = "True" => created[j].P_BPR # Unset)

\* a run was started after the ERS menu had been gone through twice: the
\* rupture disc, configured first, is disabled and the BPR enabled
C20_Witness ==
    /\ screen = "run_scenario_menu" /\ created # << >>
    /\ created[1].RD = "False" /\ created[1].BPR = "True"
    /\ created[1].P_RD # Unset /\ created[1].P_BPR # Unset

\* C21: with the rupture disc disabled no run gets termination code 1 or 4
\* and the venting phase is never entered; a report is one of maximum
\* reaction time reached, MAWP exceeded, vessel emptied or exited early; and
\* with the BPR disabled too every recorded row has vent flow 0 and
\* quality 1.
C21_NoDiscNoVenting ==
    scenario.RD = FALSE =>
      /\ tc \notin {1, 4}
      /\ venting # "True" /\ driver # "vent" /\ pc # "vent_initialized"
      /\ pc = "reported" =>
           report \in {"Process Finished Successfully (Maximum reaction time reached)",
                       "Process Finished Prematurely (Vessel pressure exceeds maximum allowable working pressure)",
                       "Process Finished Prematurely (Vessel has been fully emptied)",
                       "Integration Exited Early (See error code)"}
      /\ scenario.BPR = FALSE =>
           \A j \in 1..(IF pc \in {"loop", "solve", "raised"} THEN k
                        ELSE IF pc \in {"integrated", "reported"} THEN i
                        ELSE IF pc = "initialized" THEN 1 ELSE 0) :
              data[6][j].n_vent = 0 /\ data[6][j].xe = Scale

\* a run without devices was stopped at MAWP, on a recorded pressure above
\* the pressure a disc would have burst at
C21_Witness ==
    /\ scenario.RD = FALSE /\ scenario.BPR = FALSE
    /\ pc = "reported" /\ tc = 2 /\ i >= 2
    /\ At(data[5], i - 1).P >= scenario.P_RD

\* C22: while the right-hand side is evaluated for step k, rows 0..k-1 of
\* all six arrays are recorded and row k is still the zero row it was
\* created as; the controller was called with the temperature of row k-1,
\* and the equilibrium solve of an evaluation starts from row k-1.
C22_RowsRecordedBeforeStep ==
    /\ [](pc = "solve" =>
            /\ k >= 1 /\ k < Len(t)
            /\ \A a \in 1..6 :
                 /\ Len(data[a]) = Len(t)
                 /\ \A j \in 1..k : data[a][j] # ZeroRow(data[a][j])
                 /\ data[a][k + 1] = ZeroRow(data[a][k + 1])
            /\ solver.evals > 0 => props.eq.row = k - 1)
    /\ [][(pc = "loop" /\ pc' = "solve")
            => \E due \in BOOLEAN :
                  ramp_rate' = pid_call(setpoint', scenario, At(data[1], k - 1).T,
                                        ramp_rate, due)]_vars

\* the right-hand side has been evaluated for the first step of the venting
\* phase: the heatup rows are recorded, the first padded row is not
C22_Witness ==
    /\ pc = "solve" /\ solver.evals > 0 /\ venting = "True" /\ k = i /\ k >= 2
    /\ data[5][k + 1].P = 0 /\ data[5][k].P >= scenario.P_RD

\* the BPR window of vent_calc for a vessel pressure P, outside venting
BPRWindow(P) ==
    /\ scenario.BPR = TRUE /\ P > scenario.P_BPR
    /\ scenario.RD = TRUE => scenario.P_RD > P

\* C23 (as stated): the vent decision of an evaluation for step k is taken
\* on the pressure of the previous recorded row k-1: before venting the BPR
\* path is taken exactly when that pressure lies in the BPR window, and in
\* venting the choked-flow flag is the one of that pressure.
C23_VentUsesPreviousRow ==
    (pc = "solve" /\ solver.evals > 0)
      => /\ venting = "False" => (called # << >> <=> BPRWindow(At(data[5], k - 1).P))
         /\ (venting = "True" /\ called # << >>)
              => vent.critical_flow =
                   (Patm < critical_pressure(At(data[5], k - 1).k, At(data[5], k - 1).P))

\* C23 (amended): the vent decision of an evaluation is taken on the
\* pressure found by the equilibrium solve of the same evaluation, the one
\* that the evaluation leaves in self.cp and that the step records.
C23_VentUsesCurrentPressure ==
    (pc = "solve" /\ solver.evals > 0)
      => /\ venting = "False" =>
              /\ called # << >> <=> BPRWindow(props.cp.P)
              /\ called # << >> =>
                   (called[1].proc = "ventflow" /\ called[1].Pd = scenario.P_BPR)
         /\ (venting = "True" /\ called # << >>)
              => vent.critical_flow =
                   (Patm < critical_pressure(props.cp.k, props.cp.P))

\* an evaluation took the BPR path on its own pressure while the previous
\* recorded row was still below the BPR set pressure
C23_Witness ==
    /\ pc = "solve" /\ solver.evals > 0 /\ venting = "False"
    /\ called # << >> /\ aux.n_vent > 0
    /\ props.cp.P > scenario.P_BPR
    /\ At(data[5], k - 1).P <= scenario.P_BPR

\* C24: the reaction heat term of an evaluation is the one of the reaction
\* alone, rate constant times peroxide moles, whatever the vent flow and
\* the exit quality: peroxide leaving through the vent adds no reaction heat.
C24_ReactionHeatOfReactionOnly ==
    (pc = "solve" /\ solver.evals > 0 /\ ~IsNaN(dY.nH2O2))
      => Q_rxn_of(dY.nH2O2)
           = Q_rxn_of(ReactionTerms(InputBase.rate, solver.y.nH2O2).nH2O2)

C26_VentMeshContinues ==
    /\ pc = "vent_initialized" =>
         /\ solver.t = At(t, i - 1) /\ solver.y = At(data[1], i - 1)
         /\ solver.success
         /\ Len(t) > i /\ RLt(At(t, i - 1), At(t, i))
    /\ (venting = "True" /\ pc \in {"vent_initialized", "loop", "solve", "raised"}) =>
         /\ \A j \in 1..(Len(t) - 1) : RLt(t[j], t[j + 1])
         /\ \A j \in i..(Len(t) - 1) :
               RLt(RSub(t[j + 1], t[j]),
                   Rat(tmax_of(scenario), tmax_of(scenario) - 1))
         /\ Last(t) = Rat(tmax_of(scenario), 1)

\* venting was initialized after a heatup of more than one row, at a time
\* that is not a whole number of mesh units
C26_Witness ==
    /\ pc = "vent_initialized" /\ i >= 2
    /\ At(t, i - 1).d > 1 /\ Len(t) > i + 1

\* C27: a check that ends the loop with a code reports the first condition
\* that holds in the order burst (1), MAWP exceeded (2), vessel emptied (3),
\* vented successfully (4), whatever other conditions hold with it.
C27_FirstConditionWins ==
    [][(pc = "loop" /\ pc' = "integrated" /\ tc' # NoCode) =>
         /\ (scenario.RD = TRUE /\ venting = "False"
             /\ props.cp.P >= scenario.P_RD) => tc' = 1
         /\ (props.cp.P >= scenario.MAWP
             /\ ~(scenario.RD = TRUE /\ venting = "False")) => tc' = 2
         /\ (props.cp.VL <= 0 /\ props.cp.P < scenario.MAWP
             /\ ~(scenario.RD = TRUE /\ venting = "False"
                  /\ props.cp.P >= scenario.P_RD)) => tc' = 3
         /\ tc' = 4 => (props.cp.VL > 0 /\ props.cp.P < scenario.MAWP)]_vars

\* code 2 was reported for a state with the pressure above MAWP and the
\* vessel empty
C27_Witness ==
    /\ pc = "integrated" /\ tc = 2
    /\ props.cp.P >= scenario.MAWP /\ props.cp.VL <= 0

\* C28: in the trajectory left by an integration that has returned, no
\* recorded row other than the last has P >= MAWP or VL <= 0, and while the
\* run is a heatup with the rupture disc enabled no row other than the last
\* has P >= P_RD; t and the six arrays hold the same number of rows.
C28_OnlyLastRowStops ==
    pc \in {"integrated", "reported"}
      => /\ \A a \in 1..6 : Len(data[a]) = Len(t)
         /\ \A j \in 1..(Len(t) - 1) :
               /\ data[5][j].P < scenario.MAWP
               /\ data[5][j].VL > 0
               /\ (scenario.RD = TRUE /\ venting = "False")
                     => data[5][j].P < scenario.P_RD

\* an integration ended on a code after at least two steps, its last row
\* alone satisfying a stop condition
C28_Witness ==
    /\ pc = "integrated" /\ tc \in {1, 2, 3} /\ Len(t) >= 3
    /\ \/ Last(data[5]).P >= scenario.MAWP
       \/ Last(data[5]).VL <= 0
       \/ (scenario.RD = TRUE /\ venting = "False"
           /\ Last(data[5]).P >= scenario.P_RD)

\* C29: a sensitivity sweep that completes (every pass appended its
\* results) leaves each of the four result lists with exactly one entry per
\* swept value: the length of each list equals the number of sweep points,
\* also when the sweep is run again in the same session.
C29_OneEntryPerSweepPoint ==
    [][(/\ screen' = "run_sensitivity_menu"
        /\ ~Refused(menu) /\ menu.value # "None"
        /\ Len(menu'.max_P) = Len(menu.max_P) + Len(menu.ranges))
         => /\ Len(menu'.max_P) = Len(menu.ranges)
            /\ Len(menu'.max_T) = Len(menu.ranges)
            /\ Len(menu'.max_conversion) = Len(menu.ranges)
            /\ Len(menu'.max_vent) = Len(menu.ranges)]_vars

\* C30: at every position of the result lists the four entries are the four
\* statistics of one run: max_vent holds that run's maximum vent flow just
\* as max_P, max_T and max_conversion hold its maximum pressure, maximum
\* temperature and conversion.
C30_MaxVentIsVentFlow ==
    \A j \in 1..Len(menu.max_vent) :
       \E r \in RunResults :
          /\ menu.max_P[j] = r.max_P
          /\ menu.max_T[j] = r.max_T
          /\ menu.max_conversion[j] = r.max_conversion
          /\ menu.max_vent[j] = r.max_vent

====
